---- MODULE Spec2Model ----
(***************************************************************************)
(* PAI-RAG: the configuration hot-reload protocol of RagService, the task  *)
(* status log, and the asynchronous ingestion pipeline with its bounded    *)
(* fan-out of vector-store insertions.                                     *)
(*                                                                         *)
(* Executors.  Every worker process w has an event loop, executor w; the   *)
(* code between two awaits runs on it without interruption, so no other    *)
(* coroutine of that process takes a step while the loop is inside a       *)
(* synchronous call (LoopFree).  Executor 0 is a thread of worker 1's      *)
(* thread pool, where FastAPI runs the synchronous endpoint task_status.   *)
(* Different processes interleave at every access to the shared files.     *)
(***************************************************************************)
EXTENDS Integers, Sequences, FiniteSets, TLC

\* ------------------------------------------------------------------ bounds
NumWorkers == 2
MaxPatches == 2
MaxWrites == 3
MaxRestarts == 2
MaxFaults == 1

\* ------------------------------------------------------- configuration data
Workers == 1..NumWorkers
PoolThread == 0
Execs == {PoolThread} \cup Workers
ProcOf(e) == IF e = PoolThread THEN 1 ELSE e

Keys == {"a", "b"}
BaseConfig == [k \in Keys |-> 0]
NoPatch == [k \in {} |-> 1]
Patches == {NoPatch, [k \in {"a"} |-> 1], [k \in {"b"} |-> 1], [k \in {"a", "z"} |-> 1]}
NoId == << >>

VARIABLES
  snapshot_content,      \* the persisted snapshot: its key-value content
  snapshot_mtime,        \* the persisted snapshot: its modification time
  config_dict_value,     \* per worker: self.config_dict_value
  config_modified_time,  \* per worker: self.config_modified_time
  rag_configuration,     \* per worker: content of self.rag_configuration
  rag_config,            \* per worker: the snapshot self.rag last reloaded to
  cpc,                   \* per executor: position inside check_updates / reload
  caller,                \* per executor: who called ([kind, id])
  new_config,            \* per executor: reload's argument
  new_modified_time,     \* per executor: check_updates' local
  rag_snapshot,          \* per executor: reload's local rag_snapshot (content)
  outcome,               \* per executor: "ok" or "raised" once cpc = "ret"
  prior,                 \* per executor: the worker's state when the call began
  did,                   \* per executor: what the call has done so far
  patches,               \* number of PATCH /config requests made so far
  faults                 \* number of calls into the environment that have raised

\* What the workers share or keep between calls, and the frames of the calls.
cfgShared == <<snapshot_content, snapshot_mtime, config_dict_value, config_modified_time,
               rag_configuration, rag_config, patches, faults>>
cfgFrame == <<cpc, caller, new_config, new_modified_time, rag_snapshot, outcome, prior, did>>
cfgVars == <<cfgShared, cfgFrame>>

\* RagConfiguration.update: a sparse patch merged over a snapshot; a patch with
\* an invalid key is refused as a whole.
PatchValid(patch) == DOMAIN patch \subseteq Keys
update(snapshot, patch) == [k \in Keys |-> IF k \in DOMAIN patch THEN patch[k] ELSE snapshot[k]]

\* to_dict: the serialized key-value content of a snapshot.
to_dict(snapshot) == snapshot

\* No PATCH /config is under way and none is to come.
PatchesOver == patches = MaxPatches /\ \A e \in Execs : caller[e].kind # "patch"

ActiveState(w) == [dict |-> config_dict_value[w], conf |-> rag_configuration[w],
                   down |-> rag_config[w], seen |-> config_modified_time[w],
                   settled |-> PatchesOver]

NoPrior == [dict |-> BaseConfig, conf |-> BaseConfig, down |-> BaseConfig, seen |-> 0,
            settled |-> FALSE]

\* The state after every worker has run initialize, one after the other:
\* each reads the modification time before it persists.
ConfigInit ==
  /\ snapshot_content = BaseConfig
  /\ snapshot_mtime = NumWorkers
  /\ config_dict_value = [w \in Workers |-> to_dict(BaseConfig)]
  /\ config_modified_time = [w \in Workers |-> w - 1]
  /\ rag_configuration = [w \in Workers |-> BaseConfig]
  /\ rag_config = [w \in Workers |-> BaseConfig]
  /\ cpc = [e \in Execs |-> "idle"]
  /\ caller = [e \in Execs |-> [kind |-> "none", id |-> NoId]]
  /\ new_config = [e \in Execs |-> NoPatch]
  /\ new_modified_time = [e \in Execs |-> 0]
  /\ rag_snapshot = [e \in Execs |-> BaseConfig]
  /\ outcome = [e \in Execs |-> "ok"]
  /\ prior = [e \in Execs |-> NoPrior]
  /\ did = [e \in Execs |-> {}]
  /\ patches = 0
  /\ faults = 0

\* A call of check_updates (entry "cu_mtime") or reload (entry "rl_snapshot")
\* on executor e, on behalf of `who`.
Enter(e, entry, who, patch) ==
  /\ cpc[e] = "idle"
  /\ cpc' = [cpc EXCEPT ![e] = entry]
  /\ caller' = [caller EXCEPT ![e] = who]
  /\ new_config' = [new_config EXCEPT ![e] = patch]
  /\ prior' = [prior EXCEPT ![e] = ActiveState(ProcOf(e))]
  /\ did' = [did EXCEPT ![e] = {}]
  /\ UNCHANGED <<new_modified_time, rag_snapshot, outcome>>

Return(e, how) ==
  /\ cpc' = [cpc EXCEPT ![e] = "ret"]
  /\ outcome' = [outcome EXCEPT ![e] = how]

\* The call is over: its frame (locals, arguments) is gone.
Forget(e) ==
  /\ cpc' = [cpc EXCEPT ![e] = "idle"]
  /\ caller' = [caller EXCEPT ![e] = [kind |-> "none", id |-> NoId]]
  /\ new_config' = [new_config EXCEPT ![e] = NoPatch]
  /\ new_modified_time' = [new_modified_time EXCEPT ![e] = 0]
  /\ rag_snapshot' = [rag_snapshot EXCEPT ![e] = BaseConfig]
  /\ outcome' = [outcome EXCEPT ![e] = "ok"]
  /\ prior' = [prior EXCEPT ![e] = NoPrior]
  /\ did' = [did EXCEPT ![e] = {}]

\* A call into code outside this service raises (the snapshot file, the
\* downstream subsystems).
Fault ==
  /\ faults < MaxFaults
  /\ faults' = faults + 1

\* What follows reload: line 93 inside check_updates, the return of PATCH.
AfterReload(e) == IF caller[e].kind = "patch" THEN "ret" ELSE "cu_set"

\* check_updates, lines 90-91 and 94-95.
cu_mtime(e) ==
  /\ cpc[e] = "cu_mtime"
  /\ new_modified_time' = [new_modified_time EXCEPT ![e] = snapshot_mtime]
  /\ IF config_modified_time[ProcOf(e)] # snapshot_mtime
       THEN cpc' = [cpc EXCEPT ![e] = "rl_snapshot"] /\ UNCHANGED outcome
       ELSE Return(e, "ok")
  /\ UNCHANGED <<snapshot_content, snapshot_mtime, config_dict_value, config_modified_time,
                 rag_configuration, rag_config, caller, new_config, rag_snapshot, prior,
                 did, patches, faults>>

\* reload, lines 68-74: read the persisted snapshot, apply the patch.
rl_snapshot(e) ==
  /\ cpc[e] = "rl_snapshot"
  /\ \/ /\ new_config[e] # NoPatch => PatchValid(new_config[e])
        /\ rag_snapshot' = [rag_snapshot EXCEPT ![e] =
                              IF new_config[e] # NoPatch
                                THEN update(snapshot_content, new_config[e])
                                ELSE snapshot_content]
        /\ cpc' = [cpc EXCEPT ![e] = "rl_compare"]
        /\ UNCHANGED <<outcome, faults>>
     \/ /\ new_config[e] # NoPatch /\ ~PatchValid(new_config[e])
        /\ Return(e, "raised")
        /\ UNCHANGED <<rag_snapshot, faults>>
     \/ \* from_snapshot raises
        /\ Fault
        /\ Return(e, "raised")
        /\ UNCHANGED rag_snapshot
  /\ UNCHANGED <<snapshot_content, snapshot_mtime, config_dict_value, config_modified_time,
                 rag_configuration, rag_config, caller, new_config, new_modified_time,
                 prior, did, patches>>

\* A comparison that takes every rewrite of the snapshot for a change.
ConfigChangedByMtime(e) == TRUE

\* reload, line 75.
ConfigChanged(e) == config_dict_value[ProcOf(e)] # to_dict(rag_snapshot[e])

\* reload, lines 75-77 and 81-82: compare with the active content, and
\* reload the downstream subsystems when it differs.
rl_compare(e) ==
  /\ cpc[e] = "rl_compare"
  /\ IF ConfigChanged(e)
       THEN /\ did' = [did EXCEPT ![e] = @ \cup {"reload"}]
            /\ \/ /\ rag_config' = [rag_config EXCEPT ![ProcOf(e)] = rag_snapshot[e]]
                  /\ cpc' = [cpc EXCEPT ![e] = "rl_assign"]
                  /\ UNCHANGED <<outcome, faults>>
               \/ \* self.rag.reload raises
                  /\ Fault
                  /\ Return(e, "raised")
                  /\ UNCHANGED rag_config
       ELSE /\ cpc' = [cpc EXCEPT ![e] = AfterReload(e)]
            /\ outcome' = [outcome EXCEPT ![e] = "ok"]
            /\ UNCHANGED <<rag_config, did, faults>>
  /\ UNCHANGED <<snapshot_content, snapshot_mtime, config_dict_value, config_modified_time,
                 rag_configuration, caller, new_config, new_modified_time, rag_snapshot,
                 prior, patches>>

\* reload, lines 78-79.
rl_assign(e) ==
  /\ cpc[e] = "rl_assign"
  /\ config_dict_value' = [config_dict_value EXCEPT ![ProcOf(e)] = to_dict(rag_snapshot[e])]
  /\ rag_configuration' = [rag_configuration EXCEPT ![ProcOf(e)] = rag_snapshot[e]]
  /\ cpc' = [cpc EXCEPT ![e] = "rl_persist"]
  /\ did' = [did EXCEPT ![e] = @ \cup {"assign"}]
  /\ UNCHANGED <<snapshot_content, snapshot_mtime, config_modified_time, rag_config, caller,
                 new_config, new_modified_time, rag_snapshot, outcome, prior, patches,
                 faults>>

\* reload, line 80: self.rag_configuration.persist().
rl_persist(e) ==
  /\ cpc[e] = "rl_persist"
  /\ \/ /\ snapshot_mtime < NumWorkers + MaxWrites
        /\ snapshot_content' = rag_configuration[ProcOf(e)]
        /\ snapshot_mtime' = snapshot_mtime + 1
        /\ did' = [did EXCEPT ![e] = @ \cup {"persist"}]
        /\ cpc' = [cpc EXCEPT ![e] = AfterReload(e)]
        /\ outcome' = [outcome EXCEPT ![e] = "ok"]
        /\ UNCHANGED faults
     \/ \* persist raises
        /\ Fault
        /\ Return(e, "raised")
        /\ UNCHANGED <<snapshot_content, snapshot_mtime, did>>
  /\ UNCHANGED <<config_dict_value, config_modified_time, rag_configuration, rag_config,
                 caller, new_config, new_modified_time, rag_snapshot, prior, patches>>

\* check_updates, line 93.
cu_set(e) ==
  /\ cpc[e] = "cu_set"
  /\ config_modified_time' = [config_modified_time EXCEPT ![ProcOf(e)] = new_modified_time[e]]
  /\ Return(e, "ok")
  /\ UNCHANGED <<snapshot_content, snapshot_mtime, config_dict_value, rag_configuration,
                 rag_config, caller, new_config, new_modified_time, rag_snapshot, prior,
                 did, patches, faults>>

\* One step of check_updates / reload on executor e.
ConfigStep(e) ==
  \/ cu_mtime(e)
  \/ rl_snapshot(e)
  \/ rl_compare(e)
  \/ rl_assign(e)
  \/ rl_persist(e)
  \/ cu_set(e)

\* GET /config: get_config, which checks for updates first.
aconfig(w) ==
  /\ Enter(w, "cu_mtime", [kind |-> "get_config", id |-> NoId], NoPatch)
  /\ UNCHANGED cfgShared

\* PATCH /config: reload(new_config).
aupdate(w, patch) ==
  /\ patches < MaxPatches
  /\ patches' = patches + 1
  /\ Enter(w, "rl_snapshot", [kind |-> "patch", id |-> NoId], patch)
  /\ UNCHANGED <<snapshot_content, snapshot_mtime, config_dict_value, config_modified_time,
                 rag_configuration, rag_config, faults>>

\* The endpoint answers: the configuration, or the error reload raised.
config_done(w) ==
  /\ cpc[w] = "ret"
  /\ caller[w].kind \in {"get_config", "patch"}
  /\ Forget(w)
  /\ UNCHANGED cfgShared


\* ------------------------------------------------------------ strings
\* A string is the sequence of its characters.
TAB == "\t"
NL == "\n"
SPACE == " "
Whitespace == {SPACE, TAB, NL}
UNKNOWN == <<"u", "n", "k", "n", "o", "w", "n">>
PROCESSING == <<"p", "r", "o", "c", "e", "s", "s", "i", "n", "g">>
COMPLETED == <<"c", "o", "m", "p", "l", "e", "t", "e", "d">>
FAILED == <<"f", "a", "i", "l", "e", "d">>
NoneStr == <<"N", "o", "n", "e">>
Statuses == {UNKNOWN, PROCESSING, COMPLETED, FAILED}

\* Python's None, and a value that is a string.
None == [some |-> FALSE, val |-> << >>]
Some(s) == [some |-> TRUE, val |-> s]

\* str.replace(old, new) for one-character strings.
replace(s, old, new) == [i \in 1..Len(s) |-> IF s[i] = old THEN new ELSE s[i]]

\* str.startswith.
startswith(s, prefix) ==
  /\ Len(prefix) <= Len(s)
  /\ \A i \in 1..Len(prefix) : s[i] = prefix[i]

\* str.strip(): leading and trailing whitespace removed.
RECURSIVE lstrip(_)
lstrip(s) == IF s # << >> /\ Head(s) \in Whitespace THEN lstrip(Tail(s)) ELSE s
RECURSIVE rstrip(_)
rstrip(s) ==
  IF s # << >> /\ s[Len(s)] \in Whitespace THEN rstrip(SubSeq(s, 1, Len(s) - 1)) ELSE s
strip(s) == rstrip(lstrip(s))

\* str.split(sep): the parts between the separators, empty parts kept.
RECURSIVE split(_, _)
split(s, sep) ==
  IF \E i \in 1..Len(s) : s[i] = sep
    THEN LET i == CHOOSE j \in 1..Len(s) : s[j] = sep /\ \A k \in 1..(j - 1) : s[k] # sep
         IN <<SubSeq(s, 1, i - 1)>> \o split(SubSeq(s, i + 1, Len(s)), sep)
    ELSE <<s>>

\* file.readlines(): the lines of a text, each with its newline.
RECURSIVE readlines(_)
readlines(text) ==
  IF text = << >> THEN << >>
  ELSE IF \E i \in 1..Len(text) : text[i] = NL
    THEN LET i == CHOOSE j \in 1..Len(text) : text[j] = NL /\ \A k \in 1..(j - 1) : text[k] # NL
         IN <<SubSeq(text, 1, i)>> \o readlines(SubSeq(text, i + 1, Len(text)))
    ELSE <<text>>

\* ------------------------------------------------------ task status log
VARIABLES
  log_exists,   \* TASK_STATUS_FILE exists
  log,          \* its text
  written,      \* per task: the statuses add_knowledge_async has appended for it
  response,     \* the answer of the current GET /get_upload_state request
  restarts      \* how often a worker has started again

logVars == <<log_exists, log, written, response, restarts>>

\* add_knowledge_async, lines 106-107, 112-113: open(TASK_STATUS_FILE, "a") and
\* write "{task_id}\t{status}\n".
StatusLine(task_id, status) == task_id \o <<TAB>> \o status \o <<NL>>

\* add_knowledge_async, lines 119-121: the detail with tabs and newlines
\* replaced by spaces.
Sanitize(s) == replace(replace(s, TAB, SPACE), NL, SPACE)
Detail(ex, cause) == Sanitize(ex \o <<":", SPACE>> \o cause)

\* add_knowledge_async, line 122: "{task_id}\tfailed\t{detail}\n".
FailedLine(task_id, ex, cause) ==
  task_id \o <<TAB>> \o FAILED \o <<TAB>> \o Detail(ex, cause) \o <<NL>>

\* get_task_status, lines 127-141, after check_updates: the bare status when
\* the file is missing, else the pair (status, detail) of the last line that
\* starts with task_id.
RECURSIVE ScanBack(_, _, _)
ScanBack(lines, i, task_id) ==
  IF i = 0 THEN [is_tuple |-> TRUE, status |-> UNKNOWN, detail |-> None]
  ELSE IF startswith(lines[i], task_id)
    THEN LET parts == split(strip(lines[i]), TAB)
         IN [is_tuple |-> TRUE,
             status |-> parts[2],
             detail |-> IF Len(parts) = 3 THEN Some(parts[3]) ELSE None]
    ELSE ScanBack(lines, i - 1, task_id)

\* A scan from the start of the log: the first line of the task wins.
get_task_status_forward(task_id) ==
  IF ~log_exists
    THEN [is_tuple |-> FALSE, status |-> UNKNOWN, detail |-> None]
    ELSE LET lines == readlines(log)
             hits == {j \in 1..Len(lines) : startswith(lines[j], task_id)}
         IN IF hits = {}
              THEN ScanBack(lines, 0, task_id)
              ELSE ScanBack(lines, CHOOSE j \in hits : \A k \in hits : j <= k, task_id)

get_task_status(task_id) ==
  IF ~log_exists
    THEN [is_tuple |-> FALSE, status |-> UNKNOWN, detail |-> None]
    ELSE LET lines == readlines(log) IN ScanBack(lines, Len(lines), task_id)

\* task_status, line 74: "status, detail = ..." unpacks a pair, or a string
\* of two characters; anything else raises ValueError.
Unpackable(r) == r.is_tuple \/ Len(r.status) = 2

\* ------------------------------------------------------------ ingestion
BatchSize == 100
SemaphoreWidth == 10
MaxFullBatches == 10
MaxFailures == 1

\* upload_data, line 114: the ids are uuid4().hex, all of one length.  A
\* client may ask for the status of any string.
Tasks == {<<"a", "b">>, <<"a", "c">>}
QueryIds == Tasks \cup {<<"a">>}
ErrMsgs == {<<"e", TAB, "r", NL>>}
NoFiles == -1

VARIABLES
  phase,        \* per task: where its add_knowledge_async call stands
  nodes_in,     \* per task: how many nodes its files yield (NoFiles: no file)
  embedded,     \* per task: batches embedded so far
  batch,        \* per task: the state of each _process_one_batch coroutine
  semaphore,    \* per task: the value of the call's asyncio.Semaphore
  effects,      \* per task: the index side effects of the call, in order
  bm25_index,   \* a keyword index is configured
  failures,     \* async_add calls that have raised
  started,      \* per task: the time when its call began
  bm25_docs,    \* per task: how many of its nodes the keyword index holds
  index_metadata, \* the index-metadata record
  index_struct, \* per task: what the index structure holds of its nodes
  docstore,     \* per task: what the document store holds of its nodes
  store_nodes,  \* not stores_text, or _store_nodes_override
  get_nodes_args,   \* the documents of one _get_nodes call and what it was given
  get_nodes_return  \* what that call returned

idxVars == <<started, bm25_docs, index_metadata, index_struct, docstore, store_nodes>>
nodeVars == <<get_nodes_args, get_nodes_return>>
ingVars == <<phase, nodes_in, embedded, batch, semaphore, effects, bm25_index, failures,
             idxVars, nodeVars>>
vars == <<cfgVars, logVars, ingVars>>

\* A split that keeps the full batches only.
NumBatchesFloor(n) == n \div BatchSize

\* iter_batch(nodes, 100): the number of batches, and the nodes of batch b.
NumBatches(n) == (n + BatchSize - 1) \div BatchSize
BatchNodes(n, b) == ((b - 1) * BatchSize + 1)..(IF b * BatchSize < n THEN b * BatchSize ELSE n)

\* The event loop of worker 1 is not inside a synchronous call.
LoopFree == cpc[1] = "idle"

InFlight(t) == {b \in DOMAIN batch[t] : batch[t][b] = "inflight"}
Finished(t) == {b \in DOMAIN batch[t] : batch[t][b] \in {"inserted", "failed"}}

NoResponse == [kind |-> "none", task_id |-> NoId, status |-> UNKNOWN, detail |-> None]

\* datetime.datetime.now(): time is read off the number of status records
\* appended so far.
Now == Len(written[<<"a", "b">>]) + Len(written[<<"a", "c">>])

\* The index-metadata file before any keyword-index update.
NoMetadata == [exists |-> FALSE, lastUpdated |-> 0]

\* The nodes of batch b as _get_node_with_embedding returns them, and the
\* ids the vector store gives them.
EmbeddedBatch(b) == [batch |-> b, embedding |-> TRUE]
NewIds(b) == [batch |-> b, key |-> "new_id"]

\* A copy that keeps its embedding.
KeepEmbedding(nodes) == nodes

\* _process_one_batch, lines 47-48: a copy of the node without its embedding.
WithoutEmbedding(nodes) == [nodes EXCEPT !.embedding = FALSE]

\* _process_one_batch, lines 44-53, all of it between two awaits: every node
\* of the batch goes into the index structure under its new id and into the
\* document store.
Register(t, b) ==
  IF store_nodes
    THEN /\ index_struct' = [index_struct EXCEPT ![t] = @ \cup {NewIds(b)}]
         /\ docstore' = [docstore EXCEPT ![t] = @ \cup {WithoutEmbedding(EmbeddedBatch(b))}]
    ELSE UNCHANGED <<index_struct, docstore>>

\* A call that persists the storage context a second time.
PersistTwice == <<"add_index_struct", "persist", "persist">>

\* insert_nodes_async, line 120, and aload, lines 187-189.
AfterJoin == <<"add_index_struct", "persist">>

\* open(TASK_STATUS_FILE, "a") and one write.
AppendLine(t, status, line) ==
  /\ log_exists' = TRUE
  /\ log' = log \o line
  /\ written' = [written EXCEPT ![t] = Append(@, status)]

\* A handler that writes the failure record on the way out of every call.
CompleteThenFail(t) ==
  /\ log_exists' = TRUE
  /\ log' = log \o StatusLine(t, COMPLETED) \o FailedLine(t, << >>, NoneStr)
  /\ written' = [written EXCEPT ![t] = @ \o <<COMPLETED, FAILED>>]
  /\ phase' = [phase EXCEPT ![t] = "returned"]

\* add_knowledge_async, lines 112-113: aload_knowledge has returned.
Complete(t) ==
  /\ AppendLine(t, COMPLETED, StatusLine(t, COMPLETED))
  /\ phase' = [phase EXCEPT ![t] = "returned"]

\* add_knowledge_async, lines 114-123: aload_knowledge has raised ex.
Fail(t, ex) ==
  /\ AppendLine(t, FAILED, FailedLine(t, ex, NoneStr))
  /\ phase' = [phase EXCEPT ![t] = "raised"]

\* add_knowledge_async, line 105: the call begins with check_updates.
add_knowledge_async(t) ==
  /\ phase[t] = "idle"
  /\ Enter(1, "cu_mtime", [kind |-> "task", id |-> t], NoPatch)
  /\ phase' = [phase EXCEPT ![t] = "check_updates"]
  /\ started' = [started EXCEPT ![t] = Now]
  /\ UNCHANGED <<cfgShared, logVars, nodes_in, embedded, batch, semaphore, effects,
                 bm25_index, failures,
                 bm25_docs, index_metadata, index_struct, docstore, store_nodes, nodeVars>>

\* add_knowledge_async, lines 105-111: check_updates is over; if it raised,
\* so does the call; else "processing" is appended and aload begins with
\* _get_nodes in the thread pool (rag_dataloader.py, lines 177-179).
task_begin(t) ==
  /\ cpc[1] = "ret"
  /\ caller[1] = [kind |-> "task", id |-> t]
  /\ IF outcome[1] = "ok"
       THEN /\ AppendLine(t, PROCESSING, StatusLine(t, PROCESSING))
            /\ phase' = [phase EXCEPT ![t] = "get_nodes"]
       ELSE /\ phase' = [phase EXCEPT ![t] = "raised"]
            /\ UNCHANGED <<log_exists, log, written>>
  /\ Forget(1)
  /\ UNCHANGED <<cfgShared, response, restarts, nodes_in, embedded, batch, semaphore, effects,
                 bm25_index, failures,
                 idxVars, nodeVars>>

\* A test that lets an empty list of nodes through.
IsNone(t) == nodes_in[t] = NoFiles

\* aload, line 180: "not nodes" holds for None and for the empty list.
NoNodes(t) == nodes_in[t] <= 0

\* aload, lines 177-186: _get_nodes is back; no nodes is a no-op, else
\* insert_nodes_async starts to embed the first batch.
get_nodes_done(t) ==
  /\ LoopFree
  /\ phase[t] = "get_nodes"
  /\ \/ /\ NoNodes(t)
        /\ Complete(t)
        /\ UNCHANGED embedded
     \/ /\ ~NoNodes(t)
        /\ phase' = [phase EXCEPT ![t] = "embed"]
        /\ embedded' = [embedded EXCEPT ![t] = 0]
        /\ UNCHANGED <<log_exists, log, written>>
     \/ /\ nodes_in[t] # NoFiles
        /\ \E ex \in ErrMsgs : Fail(t, ex)
        /\ UNCHANGED embedded
  /\ UNCHANGED <<cfgVars, response, restarts, nodes_in, batch, semaphore, effects, bm25_index, failures,
                 idxVars, nodeVars>>

\* _async_add_nodes_to_index, lines 82-91, and _postprocess_all_batch, lines
\* 61-69: one more batch is embedded; after the last one the semaphore is
\* made and every batch gets its coroutine.
embed_done(t) ==
  /\ LoopFree
  /\ phase[t] = "embed"
  /\ \/ /\ embedded[t] + 1 < NumBatches(nodes_in[t])
        /\ embedded' = [embedded EXCEPT ![t] = @ + 1]
        /\ UNCHANGED <<phase, batch, semaphore, log_exists, log, written>>
     \/ /\ embedded[t] + 1 = NumBatches(nodes_in[t])
        /\ embedded' = [embedded EXCEPT ![t] = @ + 1]
        /\ phase' = [phase EXCEPT ![t] = "gather"]
        /\ batch' = [batch EXCEPT ![t] = [b \in 1..NumBatches(nodes_in[t]) |-> "pending"]]
        /\ semaphore' = [semaphore EXCEPT ![t] = SemaphoreWidth]
        /\ UNCHANGED <<log_exists, log, written>>
     \/ /\ \E ex \in ErrMsgs : Fail(t, ex)
        /\ UNCHANGED <<embedded, batch, semaphore>>
  /\ UNCHANGED <<cfgVars, response, restarts, nodes_in, effects, bm25_index, failures,
                 idxVars, nodeVars>>

\* A semaphore that lets every coroutine through.
CanAcquireUnbounded(t) == TRUE

\* asyncio.Semaphore.acquire without waiting: the value is positive.
CanAcquire(t) == semaphore[t] > 0

\* _process_one_batch, lines 39-40: the coroutines run in the order they
\* were made, and the semaphore wakes its waiters in that order.
start_batch(t, b) ==
  /\ LoopFree
  /\ b \in DOMAIN batch[t]
  /\ batch[t][b] = "pending"
  /\ \A k \in 1..(b - 1) : batch[t][k] # "pending"
  /\ CanAcquire(t)
  /\ semaphore' = [semaphore EXCEPT ![t] = @ - 1]
  /\ batch' = [batch EXCEPT ![t][b] = "inflight"]
  /\ UNCHANGED <<cfgVars, logVars, phase, nodes_in, embedded, effects, bm25_index, failures,
                 idxVars, nodeVars>>

\* _process_one_batch, lines 40-53: async_add returns or raises; leaving
\* "async with" releases the semaphore.
finish_batch(t, b) ==
  /\ LoopFree
  /\ b \in DOMAIN batch[t]
  /\ batch[t][b] = "inflight"
  /\ \/ /\ batch' = [batch EXCEPT ![t][b] = "inserted"]
        /\ Register(t, b)
        /\ UNCHANGED failures
     \/ /\ failures < MaxFailures
        /\ failures' = failures + 1
        /\ batch' = [batch EXCEPT ![t][b] = "failed"]
        /\ UNCHANGED <<index_struct, docstore>>
  /\ semaphore' = [semaphore EXCEPT ![t] = @ + 1]
  /\ UNCHANGED <<cfgVars, logVars, phase, nodes_in, embedded, effects, bm25_index,
                 started, bm25_docs, index_metadata, store_nodes, nodeVars>>

\* A join that is over with the first coroutine that returns.
JoinedFirst(t) == \E b \in DOMAIN batch[t] : batch[t][b] = "inserted"

\* A join that takes a coroutine that raised for one that returned.
JoinedAnyhow(t) == \A b \in DOMAIN batch[t] : batch[t][b] \in {"inserted", "failed"}

\* asyncio.gather, line 69: it returns once every coroutine has returned.
Joined(t) == \A b \in DOMAIN batch[t] : batch[t][b] = "inserted"

\* insert_nodes_async, line 120, and aload, lines 187-199: after the join
\* the index struct is stored and the storage context persisted; then the
\* keyword index, if there is one, is updated in the thread pool.
gather_return(t) ==
  /\ LoopFree
  /\ phase[t] = "gather"
  /\ Joined(t)
  /\ \/ /\ bm25_index
        /\ effects' = [effects EXCEPT ![t] = @ \o AfterJoin]
        /\ phase' = [phase EXCEPT ![t] = "add_docs"]
        /\ UNCHANGED <<log_exists, log, written>>
     \/ /\ ~bm25_index
        /\ effects' = [effects EXCEPT ![t] = @ \o AfterJoin]
        /\ Complete(t)
     \/ \* storage_context.persist raises
        /\ effects' = [effects EXCEPT ![t] = @ \o <<"add_index_struct">>]
        /\ \E ex \in ErrMsgs : Fail(t, ex)
  /\ UNCHANGED <<cfgVars, response, restarts, nodes_in, embedded, batch, semaphore, bm25_index, failures,
                 idxVars, nodeVars>>

\* asyncio.gather, line 69: it raises as soon as one coroutine has raised;
\* the other coroutines go on.
gather_raise(t) ==
  /\ LoopFree
  /\ phase[t] = "gather"
  /\ \E b \in DOMAIN batch[t] : batch[t][b] = "failed"
  /\ \E ex \in ErrMsgs : Fail(t, ex)
  /\ UNCHANGED <<cfgVars, response, restarts, nodes_in, embedded, batch, semaphore, effects,
                 bm25_index, failures,
                 idxVars, nodeVars>>

\* aload, lines 193-199: add_docs is back; the index metadata is written.
add_docs_done(t) ==
  /\ LoopFree
  /\ phase[t] = "add_docs"
  /\ \/ /\ effects' = [effects EXCEPT ![t] = @ \o <<"add_docs", "metadata">>]
        /\ bm25_docs' = [bm25_docs EXCEPT ![t] = @ + nodes_in[t]]
        /\ index_metadata' = [exists |-> TRUE, lastUpdated |-> Now]
        /\ Complete(t)
     \/ /\ \E ex \in ErrMsgs : Fail(t, ex)
        /\ UNCHANGED <<effects, bm25_docs, index_metadata>>
  /\ UNCHANGED <<cfgVars, response, restarts, nodes_in, embedded, batch, semaphore, bm25_index, failures,
                 started, index_struct, docstore, store_nodes, nodeVars>>

\* One step of an ingestion call on worker 1.
IngestStep(t) ==
  \/ add_knowledge_async(t)
  \/ task_begin(t)
  \/ get_nodes_done(t)
  \/ embed_done(t)
  \/ \E b \in 1..(MaxFullBatches + 1) : start_batch(t, b)
  \/ \E b \in 1..(MaxFullBatches + 1) : finish_batch(t, b)
  \/ gather_return(t)
  \/ gather_raise(t)
  \/ add_docs_done(t)

\* GET /get_upload_state, run in worker 1's thread pool: get_task_status
\* begins with check_updates.
task_status(task_id) ==
  /\ Enter(PoolThread, "cu_mtime", [kind |-> "status", id |-> task_id], NoPatch)
  /\ response' = NoResponse
  /\ UNCHANGED <<cfgShared, log_exists, log, written, restarts, ingVars>>

\* get_task_status, lines 127-141, and task_status, lines 74-75.
task_status_done ==
  /\ cpc[PoolThread] = "ret"
  /\ LET r == get_task_status(caller[PoolThread].id)
     IN response' =
          IF outcome[PoolThread] # "ok"
            THEN [kind |-> "raised", task_id |-> caller[PoolThread].id,
                  status |-> UNKNOWN, detail |-> None]
          ELSE IF Unpackable(r)
            THEN [kind |-> "ok", task_id |-> caller[PoolThread].id,
                  status |-> r.status, detail |-> r.detail]
            ELSE [kind |-> "error", task_id |-> caller[PoolThread].id,
                  status |-> UNKNOWN, detail |-> None]
  /\ Forget(PoolThread)
  /\ UNCHANGED <<cfgShared, log_exists, log, written, restarts, ingVars>>

\* RagService.initialize, lines 44-56, when worker w starts again: the
\* configuration is loaded from the file and persisted, the log is emptied.
initialize(w) ==
  /\ cpc[w] = "idle"
  /\ restarts < MaxRestarts
  /\ restarts' = restarts + 1
  /\ rag_configuration' = [rag_configuration EXCEPT ![w] = BaseConfig]
  /\ config_dict_value' = [config_dict_value EXCEPT ![w] = to_dict(BaseConfig)]
  /\ config_modified_time' = [config_modified_time EXCEPT ![w] = snapshot_mtime]
  /\ snapshot_content' = BaseConfig
  /\ snapshot_mtime' = snapshot_mtime + 1
  /\ rag_config' = [rag_config EXCEPT ![w] = BaseConfig]
  /\ log' = << >>
  /\ UNCHANGED <<patches, faults, cfgFrame, log_exists, written, response, ingVars>>


\* ------------------------------------------------------------ _get_nodes
\* rag_dataloader.py, lines 93-141: the nodes of the loaded documents, and the
\* question nodes of the two extractors.
MaxDocs == 2

Digits == <<"0", "1", "2", "3", "4", "5", "6", "7", "8", "9">>

RECURSIVE str(_)
str(n) == IF n < 10 THEN <<Digits[n + 1]>> ELSE str(n \div 10) \o <<Digits[(n % 10) + 1]>>

\* dict.get(key, default)
get(d, key, default) == IF key \in DOMAIN d THEN d[key] ELSE default

\* A setting that keeps the value a key already has.
setdefault(d, key, value) ==
  [k \in DOMAIN d \cup {key} |-> IF k \in DOMAIN d THEN d[k] ELSE value]

\* dict[key] = value
setitem(d, key, value) ==
  [k \in DOMAIN d \cup {key} |-> IF k = key THEN value ELSE d[k]]

RECURSIVE rfind(_, _)
rfind(s, c) ==
  IF s = << >> THEN 0
  ELSE IF s[Len(s)] = c THEN Len(s)
  ELSE rfind(SubSeq(s, 1, Len(s) - 1), c)

\* os.path.splitext(p)[1] of a file name without directories
splitext(p) ==
  LET i == rfind(p, ".")
  IN  IF i <= 1 THEN << >> ELSE SubSeq(p, i, Len(p))

DOC_TYPES_DO_NOT_NEED_CHUNKING ==
  { <<".", "c", "s", "v">>, <<".", "x", "l", "s", "x">>, <<".", "x", "l", "s">>,
    <<".", "h", "t", "m">>, <<".", "h", "t", "m", "l">> }

_extract_file_type(metadata) ==
  splitext(get(metadata, "file_name", <<"d", "u", "m", "m", "y", ".", "t", "x", "t">>))

\* What a reader loads: rows of a.csv, and the text of b.md and of c.txt.
Texts == { <<"d">>, <<"e">> }

Document(name, text) ==
  [text |-> text, metadata |-> [k \in {"file_name", "file_path"} |-> name]]

Docs ==
  { Document(<<"a", ".", "c", "s", "v">>, t) : t \in Texts }
    \cup { Document(<<"b", ".", "m", "d">>, <<"d">>),
           Document(<<"c", ".", "t", "x", "t">>, <<"d">>) }

\* The readers give a file that is chunked once; rows of a table may repeat.
DocBatches ==
  { docs \in UNION { [1..n -> Docs] : n \in 0..MaxDocs } :
      \A i, j \in DOMAIN docs :
        (i # j /\ docs[i] = docs[j])
          => _extract_file_type(docs[i].metadata) \in DOC_TYPES_DO_NOT_NEED_CHUNKING }

\* node_id_hash: a hexadecimal digest of the ordinal and the document.
node_id_hash(i, doc) == str(i) \o <<doc.metadata["file_name"][1]>> \o doc.text

\* TextNode(id_=, text=, metadata=): the model validates the mapping into a
\* mapping of its own; both exclusion lists start empty.
TextNode(id_, text, metadata) ==
  [ id_ |-> id_, text |-> text, metadata |-> metadata,
    excluded_embed_metadata_keys |-> << >>,
    excluded_llm_metadata_keys |-> << >> ]

\* A node parser on one document: one chunk, numbered from 0.
get_nodes_from_documents(doc) ==
  << TextNode(node_id_hash(0, doc), doc.text, doc.metadata) >>

\* lines 96-112: for doc in docs
RECURSIVE chunk(_, _, _)
chunk(docs, doc_cnt_map, nodes) ==
  IF docs = << >> THEN nodes
  ELSE
    LET doc == Head(docs)
        doc_type == _extract_file_type(doc.metadata)
    IN  IF doc_type \in DOC_TYPES_DO_NOT_NEED_CHUNKING
        THEN LET doc_key == get(doc.metadata, "file_path", <<"d", "u", "m", "m", "y">>)
                 cnt == get(doc_cnt_map, doc_key, 0) + 1
                 node_id == node_id_hash(cnt, doc)
             IN  chunk(Tail(docs), setitem(doc_cnt_map, doc_key, cnt),
                       Append(nodes, TextNode(node_id, doc.text, doc.metadata)))
        ELSE chunk(Tail(docs), doc_cnt_map, nodes \o get_nodes_from_documents(doc))

\* What an extractor returns for a node: a mapping, in the order of its items.
Mappings ==
  { << >>,
    << << <<"Q", "1">>, <<"A", "1">> >> >>,
    << << <<"Q", "1">>, <<"A", "1">> >>, << <<"Q", "2">>, <<"A", "2">> >> >> }

\* self.extractors, line 59: the HTML and the text extractor
Extractors == 1..2

\* f"{node.id_}_{q_cnt}"
QaId(id_, q_cnt) == id_ \o <<"_">> \o str(q_cnt)

\* lines 126-135: the pairs of one node; metadata is the node's own mapping
RECURSIVE qa_items(_, _, _, _)
qa_items(node, items, q_cnt, qa_nodes) ==
  IF items = << >> THEN [node |-> node, qa_nodes |-> qa_nodes]
  ELSE
    LET q == Head(items)[1]
        a == Head(items)[2]
        metadata == setitem(node.metadata, "answer", a)
    IN  qa_items([node EXCEPT !.metadata = metadata], Tail(items), q_cnt + 1,
                 Append(qa_nodes, TextNode(QaId(node.id_, q_cnt), q, metadata)))

\* lines 122-135: for i, node in enumerate(nodes)
RECURSIVE qa_enumerate(_, _, _, _)
qa_enumerate(nodes, metadata_list, i, qa_nodes) ==
  IF i > Len(nodes) THEN [nodes |-> nodes, qa_nodes |-> qa_nodes]
  ELSE
    LET r == qa_items(nodes[i], metadata_list[i], 0, qa_nodes)
    IN  qa_enumerate([nodes EXCEPT ![i] = r.node], metadata_list, i + 1, r.qa_nodes)

\* lines 120-135: for extractor in self.extractors
RECURSIVE qa_extractors(_, _, _, _)
qa_extractors(nodes, extracted, e, qa_nodes) ==
  IF e \notin Extractors THEN [nodes |-> nodes, qa_nodes |-> qa_nodes]
  ELSE
    LET r == qa_enumerate(nodes, extracted[e], 1, qa_nodes)
    IN  qa_extractors(r.nodes, extracted, e + 1, r.qa_nodes)

\* lines 136-138
Exclude(node) ==
  [node EXCEPT !.excluded_embed_metadata_keys = Append(@, "answer"),
               !.excluded_llm_metadata_keys = Append(@, "question")]

\* lines 93-141
_get_nodes(docs, enable_qa_extraction, extracted) ==
  LET nodes == chunk(docs, << >>, << >>)
  IN  IF enable_qa_extraction
      THEN LET r == qa_extractors(nodes, extracted, 1, << >>)
           IN  r.nodes \o [k \in DOMAIN r.qa_nodes |-> Exclude(r.qa_nodes[k])]
      ELSE nodes

\* The calls: a batch of documents, the flag, and what each extractor returns
\* for each node of the batch.
GetNodesCalls ==
  UNION { { [docs |-> docs, enable_qa_extraction |-> flag, extracted |-> x] :
              flag \in BOOLEAN,
              x \in [Extractors -> [1..Len(chunk(docs, << >>, << >>)) -> Mappings]] } :
          docs \in DocBatches }

NoCall == [docs |-> << >>, enable_qa_extraction |-> FALSE,
           extracted |-> [e \in Extractors |-> << >>]]

NotReturned == [done |-> FALSE, nodes |-> << >>]

NodesInit(calls) ==
  /\ get_nodes_args \in calls
  /\ get_nodes_return = NotReturned

get_nodes ==
  /\ ~get_nodes_return.done
  /\ get_nodes_return' =
       [done |-> TRUE,
        nodes |-> _get_nodes(get_nodes_args.docs, get_nodes_args.enable_qa_extraction,
                             get_nodes_args.extracted)]
  /\ UNCHANGED <<cfgVars, logVars, phase, nodes_in, embedded, batch, semaphore, effects,
                 bm25_index, failures, idxVars, get_nodes_args>>

LogInit ==
  /\ log_exists \in BOOLEAN
  /\ log = << >>
  /\ written = [t \in Tasks |-> << >>]
  /\ response = NoResponse
  /\ restarts = 0

IngestInit(active, choices) ==
  /\ phase = [t \in Tasks |-> IF t \in active THEN "idle" ELSE "absent"]
  /\ nodes_in \in [Tasks -> choices]
  /\ \A t \in Tasks \ active : nodes_in[t] = NoFiles
  /\ embedded = [t \in Tasks |-> 0]
  /\ batch = [t \in Tasks |-> << >>]
  /\ semaphore = [t \in Tasks |-> 0]
  /\ effects = [t \in Tasks |-> << >>]
  /\ bm25_index \in BOOLEAN
  /\ failures = 0
  /\ started = [t \in Tasks |-> 0]
  /\ bm25_docs = [t \in Tasks |-> 0]
  /\ index_metadata = NoMetadata
  /\ index_struct = [t \in Tasks |-> {}]
  /\ docstore = [t \in Tasks |-> {}]
  /\ store_nodes \in BOOLEAN

\* -------------------------------------------------------- specifications
Quiet == UNCHANGED <<logVars, ingVars>>

\* The workers and their configuration: GET and PATCH /config.
ConfigSpecInit ==
  /\ ConfigInit
  /\ LogInit
  /\ log_exists = TRUE
  /\ IngestInit({}, {NoFiles})
  /\ bm25_index = TRUE
  /\ store_nodes = TRUE
  /\ NodesInit({NoCall})

ConfigNext ==
  \/ \E w \in Workers : ConfigStep(w) /\ Quiet
  \/ \E w \in Workers : aconfig(w) /\ Quiet
  \/ \E w \in Workers, patch \in Patches : aupdate(w, patch) /\ Quiet
  \/ \E w \in Workers : config_done(w) /\ Quiet

SpecConfig == ConfigSpecInit /\ [][ConfigNext]_vars

\* One ingestion call with up to MaxFullBatches + 1 batches.
IndexNodeCounts == {NoFiles, 0, 25, BatchSize + 1, BatchSize * MaxFullBatches + 1}

IndexInit ==
  /\ ConfigInit
  /\ LogInit
  /\ log_exists = TRUE
  /\ IngestInit({<<"a", "b">>}, IndexNodeCounts)
  /\ NodesInit({NoCall})

IndexNext ==
  \/ IngestStep(<<"a", "b">>)
  \/ ConfigStep(1) /\ Quiet

SpecIndex == IndexInit /\ [][IndexNext]_vars

\* Two ingestion calls, and a second worker that starts again.
TaskNodeCounts == {NoFiles, 25}

TaskInit ==
  /\ ConfigInit
  /\ LogInit
  /\ IngestInit(Tasks, TaskNodeCounts)
  /\ store_nodes = TRUE
  /\ NodesInit({NoCall})

TaskNext ==
  \/ \E t \in Tasks : IngestStep(t)
  \/ ConfigStep(1) /\ Quiet
  \/ initialize(2)

SpecTask == TaskInit /\ [][TaskNext]_vars

\* The same under fair scheduling: the event loop runs every coroutine that
\* can take a step, and every external call returns or raises.
SpecTaskFair ==
  /\ SpecTask
  /\ \A t \in Tasks : WF_vars(IngestStep(t))
  /\ WF_vars(ConfigStep(1) /\ Quiet)

\* One ingestion call, the status endpoint, and a second worker that starts again.
StatusInit ==
  /\ ConfigInit
  /\ LogInit
  /\ IngestInit({<<"a", "c">>}, TaskNodeCounts)
  /\ store_nodes = TRUE
  /\ NodesInit({NoCall})

StatusNext ==
  \/ IngestStep(<<"a", "c">>)
  \/ \E e \in {PoolThread, 1} : ConfigStep(e) /\ Quiet
  \/ \E q \in QueryIds : task_status(q)
  \/ task_status_done
  \/ initialize(2)

SpecStatus == StatusInit /\ [][StatusNext]_vars

\* Two ingestion calls in one worker, with six and five batches: more than
\* SemaphoreWidth together.
PoolNodeCounts == {6 * BatchSize, 5 * BatchSize}

PoolInit ==
  /\ ConfigInit
  /\ LogInit
  /\ log_exists = TRUE
  /\ IngestInit(Tasks, PoolNodeCounts)
  /\ nodes_in[<<"a", "b">>] = 6 * BatchSize
  /\ nodes_in[<<"a", "c">>] = 5 * BatchSize
  /\ store_nodes = TRUE
  /\ NodesInit({NoCall})

PoolNext ==
  \/ \E t \in Tasks : IngestStep(t)
  \/ ConfigStep(1) /\ Quiet

SpecPool == PoolInit /\ [][PoolNext]_vars

\* One _get_nodes call on a batch of up to MaxDocs documents.
NodesSpecInit ==
  /\ ConfigInit
  /\ LogInit
  /\ log_exists = TRUE
  /\ IngestInit({}, {NoFiles})
  /\ bm25_index = TRUE
  /\ store_nodes = TRUE
  /\ NodesInit(GetNodesCalls)

NodesNext == get_nodes

SpecNodes == NodesSpecInit /\ [][NodesNext]_vars

\* ----------------------------------------------------------------- claims
HasEffect(t, what) == \E i \in 1..Len(effects[t]) : effects[t][i] = what

\* C1: during one insert_nodes_async call at most SemaphoreWidth batches have
\* an async_add that has started and not finished, whatever the number of
\* batches, and a batch beyond the tenth has started only once a batch of the
\* same call has finished.
C1_AtMostTenInFlight ==
  \A t \in Tasks :
    /\ Cardinality(InFlight(t)) <= SemaphoreWidth
    /\ \A b \in DOMAIN batch[t] :
         b > SemaphoreWidth /\ batch[t][b] # "pending" => Finished(t) # {}

C1_Witness ==
  \E t \in Tasks :
    /\ Cardinality(InFlight(t)) = SemaphoreWidth
    /\ \E b \in DOMAIN batch[t] : b > SemaphoreWidth /\ batch[t][b] = "inflight"

\* C2: within one aload call the index-struct store, the storage-context
\* persist, the keyword-index add_docs and the index-metadata write happen
\* only when every batch of the call has been inserted: none is queued or in
\* flight.
C2_PersistAfterFullJoin ==
  \A t \in Tasks :
    effects[t] # << >> \/ phase[t] = "add_docs" =>
      /\ batch[t] # << >>
      /\ \A b \in DOMAIN batch[t] : batch[t][b] = "inserted"

C2_Witness ==
  \E t \in Tasks :
    /\ HasEffect(t, "persist")
    /\ HasEffect(t, "metadata")
    /\ Len(batch[t]) > SemaphoreWidth

\* C3: for every task id add_knowledge_async appends at most two records, a
\* "processing" record followed by at most one terminal record, and nothing
\* after a terminal record.
C3_AtMostTwoRecords ==
  \A t \in Tasks :
    written[t] \in {<< >>, <<PROCESSING>>, <<PROCESSING, COMPLETED>>, <<PROCESSING, FAILED>>}

C3_Witness ==
  /\ written[<<"a", "b">>] = <<PROCESSING, COMPLETED>>
  /\ written[<<"a", "c">>] = <<PROCESSING, FAILED>>
  /\ restarts > 0

CleanDetail(d) ==
  /\ d.some
  /\ d.val # << >>
  /\ \A i \in 1..Len(d.val) : d.val[i] \notin {TAB, NL}

\* C4: whenever add_knowledge_async has raised to its caller, whatever step
\* raised, the latest status of the task is "failed" with a non-empty detail
\* free of tabs and newlines.
C4_RaisedIsRecorded ==
  \A t \in Tasks :
    phase[t] = "raised" /\ restarts = 0 =>
      LET r == get_task_status(t)
      IN r.is_tuple /\ r.status = FAILED /\ CleanDetail(r.detail)

Ingested(t) == phase[t] = "returned" /\ Len(written[t]) = 2

NeverSubmitted(q) == q \notin Tasks \/ phase[q] = "absent"

C6_NeverSubmittedUnknown ==
  \A q \in QueryIds : NeverSubmitted(q) => get_task_status(q).status = UNKNOWN

\* C7: whenever check_updates passes, GET /get_upload_state answers with a
\* status among unknown, processing, completed, failed: get_task_status
\* returns a pair that the endpoint unpacks.
C7_StatusEndpointAnswers ==
  /\ response.kind # "error"
  /\ response.kind = "ok" => response.status \in Statuses

\* C8: when check_updates finds a changed modification time and the
\* persisted content equals the active content, the reload does nothing: no
\* downstream reload, no new active snapshot, no persist; check_updates then
\* only stores the modification time it saw.
NoopCase(e) ==
  /\ caller[e].kind = "get_config"
  /\ cpc[e] \in {"cu_set", "ret"}
  /\ outcome[e] = "ok"
  /\ new_modified_time[e] # prior[e].seen
  /\ to_dict(rag_snapshot[e]) = prior[e].dict

C8_UnchangedContentIsNoop ==
  \A e \in Workers :
    NoopCase(e) =>
      /\ did[e] = {}
      /\ config_dict_value[e] = prior[e].dict
      /\ rag_configuration[e] = prior[e].conf
      /\ rag_config[e] = prior[e].down
      /\ config_modified_time[e] = IF cpc[e] = "ret" THEN new_modified_time[e] ELSE prior[e].seen

C8_Witness ==
  \E e \in Workers :
    /\ NoopCase(e)
    /\ cpc[e] = "ret"
    /\ snapshot_content # BaseConfig
    /\ snapshot_mtime > NumWorkers + 1

\* C9: when reload has raised, the worker's cached content, its active
\* configuration object and the snapshot its subsystems hold are those from
\* before the call, and the call has persisted nothing.
C9_FailedReloadKeepsPrior ==
  \A e \in Workers :
    cpc[e] = "ret" /\ outcome[e] = "raised" =>
      /\ config_dict_value[e] = prior[e].dict
      /\ rag_configuration[e] = prior[e].conf
      /\ rag_config[e] = prior[e].down
      /\ "persist" \notin did[e]

\* C10: a worker that handles a request begun after the last patch was
\* applied ends it with an active content equal to the persisted content
\* (no call has raised, no patch is under way or to come).
C10_RequestEndsInSync ==
  \A e \in Workers :
    /\ cpc[e] = "ret"
    /\ caller[e].kind = "get_config"
    /\ outcome[e] = "ok"
    /\ prior[e].settled
    /\ faults = 0
    => config_dict_value[e] = snapshot_content

\* The executor is inside reload, past line 68.
InReload(e) == cpc[e] \in {"rl_compare", "rl_assign", "rl_persist"}

\* The executors of worker w's process.
ExecsOf(w) == {e \in Execs : ProcOf(e) = w}

\* C11: within one process no two executions of reload overlap, and no
\* other operation of the process runs while the downstream subsystems
\* hold the new snapshot and the cached active content is still the old one.
C11_ReloadIsExclusive ==
  \A w \in Workers : \A e1, e2 \in ExecsOf(w) :
    e1 # e2 =>
      /\ ~(InReload(e1) /\ InReload(e2))
      /\ ~(cpc[e1] = "rl_assign" /\ rag_config[w] # config_dict_value[w] /\ cpc[e2] # "idle")

\* The batches of all ingestion calls of the worker that are in flight.
InFlightInProcess == {tb \in Tasks \X (1..(MaxFullBatches + 1)) : tb[2] \in InFlight(tb[1])}

\* C12: in one process at most SemaphoreWidth batches are in flight against
\* the vector store, summed over all ingestion calls running in the process.
C12_AtMostTenPerProcess == Cardinality(InFlightInProcess) <= SemaphoreWidth

\* The least k with k * BatchSize >= n.
CeilBatches(n) == CHOOSE k \in 0..n : k * BatchSize >= n /\ (k - 1) * BatchSize < n

\* C13: a non-empty sequence of n nodes is embedded and submitted in
\* ceil(n / BatchSize) consecutive batches of BatchSize nodes, the last one
\* possibly smaller; every node is in exactly one batch, and a call that
\* returns has made one async_add per batch.
C13_BatchesPartitionNodes ==
  \A t \in Tasks :
    LET n == nodes_in[t] IN
      /\ batch[t] # << >> =>
            /\ n > 0
            /\ Len(batch[t]) = CeilBatches(n)
            /\ embedded[t] = Len(batch[t])
      /\ phase[t] = "returned" /\ n > 0 =>
            /\ \A b \in DOMAIN batch[t] :
                 /\ batch[t][b] = "inserted"
                 /\ BatchNodes(n, b) # {}
                 /\ b < Len(batch[t]) => Cardinality(BatchNodes(n, b)) = BatchSize
                 /\ Cardinality(BatchNodes(n, b)) <= BatchSize
                 /\ \A c \in DOMAIN batch[t] :
                      b < c => \A i \in BatchNodes(n, b), j \in BatchNodes(n, c) : i < j
            /\ \A i \in 1..n : \E b \in DOMAIN batch[t] : i \in BatchNodes(n, b)

C13_Witness ==
  \E t \in Tasks :
    /\ phase[t] = "returned"
    /\ nodes_in[t] > BatchSize * SemaphoreWidth
    /\ Len(batch[t]) = SemaphoreWidth + 1

\* The call of task t has returned after inserting nodes.
Succeeded(t) == phase[t] = "returned" /\ nodes_in[t] > 0

\* C14: a successful non-empty ingestion has, after the insertion of all its
\* batches, persisted the storage context exactly once and before any
\* keyword-index update; with a keyword index all its nodes are then added
\* to it and afterwards the index metadata is overwritten with a time not
\* before the call's start; without one the index metadata is untouched.
C14_PersistOnceThenKeywordIndex ==
  /\ \A t \in Tasks :
       /\ phase[t] = "add_docs" => effects[t] = <<"add_index_struct", "persist">>
       /\ Succeeded(t) =>
            /\ \A b \in DOMAIN batch[t] : batch[t][b] = "inserted"
            /\ IF bm25_index
                 THEN /\ effects[t] = <<"add_index_struct", "persist", "add_docs", "metadata">>
                      /\ bm25_docs[t] = nodes_in[t]
                      /\ index_metadata.exists
                      /\ index_metadata.lastUpdated >= started[t]
                 ELSE effects[t] = <<"add_index_struct", "persist">>
  /\ ~bm25_index => index_metadata = NoMetadata

C14_Witness ==
  /\ bm25_index
  /\ \A t \in Tasks : Succeeded(t)
  /\ \E t \in Tasks : started[t] > 0 /\ index_metadata.lastUpdated > started[t]

\* C15: when the file list is empty or no node is built, the ingestion does
\* nothing and raises nothing: no embedding, no async_add, no persist, the
\* keyword index, the index structure, the document store and the index
\* metadata are untouched, and the terminal status is "completed".
C15_EmptyInputIsNoop ==
  \A t \in Tasks :
    nodes_in[t] <= 0 =>
      /\ phase[t] \in {"absent", "idle", "check_updates", "get_nodes", "returned", "raised"}
      /\ embedded[t] = 0 /\ batch[t] = << >> /\ effects[t] = << >>
      /\ bm25_docs[t] = 0 /\ index_struct[t] = {} /\ docstore[t] = {}
      /\ (\A u \in Tasks \ {t} : phase[u] \in {"absent", "idle"}) => index_metadata = NoMetadata
      /\ phase[t] = "returned" => written[t] = <<PROCESSING, COMPLETED>>
      /\ nodes_in[t] = NoFiles => written[t] # <<PROCESSING, FAILED>>

C15_Witness ==
  \E t \in Tasks :
    /\ nodes_in[t] = 0
    /\ phase[t] = "returned"
    /\ bm25_index
    /\ get_task_status(t).status = COMPLETED

\* A batch of task t whose async_add has raised, or an embedding that has.
SomeBatchFailed(t) == \E b \in DOMAIN batch[t] : batch[t][b] = "failed"
EmbeddingFailed(t) == phase[t] = "raised" /\ embedded[t] < NumBatches(nodes_in[t])

\* async_add is called once per batch and what is inserted stays inserted.
NoRetryNoRollback ==
  \A t \in Tasks : \A b \in DOMAIN batch[t] :
    /\ batch[t][b] # "pending" => batch'[t][b] # "pending"
    /\ batch[t][b] \in {"inserted", "failed"} => batch'[t][b] = batch[t][b]

\* C16: when the embedding or the insertion of a batch fails, the ingestion
\* call does not return normally; no batch's async_add is called again,
\* the batches inserted stay inserted, and the call neither persists the
\* storage context, nor updates the keyword index, nor writes the metadata.
C16_BatchFailureIsFatal ==
  /\ [](\A t \in Tasks :
         SomeBatchFailed(t) \/ (nodes_in[t] > 0 /\ EmbeddingFailed(t)) =>
           /\ phase[t] \in {"gather", "raised"}
           /\ effects[t] = << >>
           /\ bm25_docs[t] = 0
           /\ index_metadata = NoMetadata)
  /\ [][NoRetryNoRollback]_vars

C16_Witness ==
  \E t \in Tasks :
    /\ phase[t] = "raised"
    /\ written[t] = <<PROCESSING, FAILED>>
    /\ \E b \in DOMAIN batch[t] : batch[t][b] = "failed"
    /\ \E b \in DOMAIN batch[t] : batch[t][b] = "inserted"
    /\ Len(batch[t]) > SemaphoreWidth

\* A terminal record has been appended for task t.
HasTerminal(t) == Len(written[t]) = 2

\* C17: under fair scheduling every ingestion call that has begun
\* eventually appends a terminal record for its task.
C17_EveryCallEndsInARecord ==
  \A t \in Tasks : (phase[t] = "check_updates") ~> HasTerminal(t)

\* C18: from the "processing" record of a task until its terminal record,
\* the latest status of the task is "processing", whatever other tasks do
\* and whatever service initializations happen meanwhile.
C18_ProcessingUntilTerminal ==
  \A t \in Tasks :
    written[t] = <<PROCESSING>> =>
      get_task_status(t) = [is_tuple |-> TRUE, status |-> PROCESSING, detail |-> None]

\* C19: the index side effects of a task lie between its two log records:
\* nothing before "processing" is appended, and once "completed" or "failed"
\* is appended no batch of the task is in flight or still to be inserted.
C19_SideEffectsBetweenRecords ==
  \A t \in Tasks :
    /\ written[t] = << >> => batch[t] = << >> /\ effects[t] = << >> /\ index_struct[t] = {}
    /\ HasTerminal(t) => \A b \in DOMAIN batch[t] : batch[t][b] \in {"inserted", "failed"}

\* The batches whose nodes the index structure, the document store hold.
InIndexStruct(t) == {r.batch : r \in index_struct[t]}
InDocstore(t) == {r.batch : r \in docstore[t]}

\* C20: when the nodes are to be stored, the nodes of every batch that has
\* completed are in the index structure under their new ids and in the
\* document store without their embeddings, and between any two steps the
\* two hold the same nodes, however the batches interleave; when they are
\* not to be stored, neither is modified.
C20_IndexStructMatchesDocstore ==
  \A t \in Tasks :
    IF store_nodes
      THEN /\ \A b \in DOMAIN batch[t] :
                batch[t][b] = "inserted" <=>
                  NewIds(b) \in index_struct[t] /\ [batch |-> b, embedding |-> FALSE] \in docstore[t]
           /\ InIndexStruct(t) = InDocstore(t)
           /\ \A r \in docstore[t] : ~r.embedding
      ELSE index_struct[t] = {} /\ docstore[t] = {}

C20_Witness ==
  \E t \in Tasks :
    /\ store_nodes
    /\ Cardinality(InDocstore(t)) > 1
    /\ InFlight(t) # {}
    /\ \E b \in DOMAIN batch[t] : batch[t][b] = "failed"
\* C21: the nodes that one _get_nodes call returns have pairwise distinct
\* identifiers, the question nodes included, whatever the documents and
\* whatever the two extractors return.
C21_DistinctIdentifiers ==
  get_nodes_return.done =>
    \A i, j \in DOMAIN get_nodes_return.nodes :
      i # j => get_nodes_return.nodes[i].id_ # get_nodes_return.nodes[j].id_

OriginalNodes == chunk(get_nodes_args.docs, << >>, << >>)

PairsOf(e, i) == get_nodes_args.extracted[e][i]

\* The pairs that come before those of node i in pass e.
RECURSIVE PairsBefore(_, _)
PairsBefore(e, i) ==
  IF i > 1 THEN PairsBefore(e, i - 1) + Len(PairsOf(e, i - 1))
  ELSE IF e > 1 THEN PairsBefore(e - 1, Len(OriginalNodes) + 1)
  ELSE 0

AllPairs == PairsBefore(Cardinality(Extractors), Len(OriginalNodes) + 1)

Listed(keys, key) == \E k \in DOMAIN keys : keys[k] = key

\* C22: with QA extraction, the call returns the original nodes and after
\* them one node for every (question, answer) pair of every pass: its text is
\* the question, its metadata is the parent's metadata with that pair's
\* answer, "answer" is excluded from embedding and "question" from
\* generation; without extraction, or with empty mappings, no node is added.
C22_OneNodePerPair ==
  get_nodes_return.done =>
    LET out == get_nodes_return.nodes
        n == Len(OriginalNodes)
    IN  /\ \A i \in 1..n :
             /\ out[i].id_ = OriginalNodes[i].id_
             /\ out[i].text = OriginalNodes[i].text
        /\ ~get_nodes_args.enable_qa_extraction => Len(out) = n
        /\ get_nodes_args.enable_qa_extraction =>
             /\ Len(out) = n + AllPairs
             /\ \A e \in Extractors, i \in 1..n :
                  \A k \in DOMAIN PairsOf(e, i) :
                    LET qa == out[n + PairsBefore(e, i) + k]
                        parent == OriginalNodes[i].metadata
                    IN  /\ qa.text = PairsOf(e, i)[k][1]
                        /\ DOMAIN qa.metadata = DOMAIN parent \cup {"answer"}
                        /\ qa.metadata["answer"] = PairsOf(e, i)[k][2]
                        /\ \A key \in DOMAIN parent \ {"answer"} :
                             qa.metadata[key] = parent[key]
                        /\ Listed(qa.excluded_embed_metadata_keys, "answer")
                        /\ Listed(qa.excluded_llm_metadata_keys, "question")

\* One node with two pairs from one pass: two more nodes are returned.
C22_Witness ==
  /\ get_nodes_return.done
  /\ get_nodes_args.enable_qa_extraction
  /\ Len(OriginalNodes) = 1
  /\ Len(PairsOf(1, 1)) = 0
  /\ Len(PairsOf(2, 1)) = 2
  /\ Len(get_nodes_return.nodes) = 3
  /\ get_nodes_return.nodes[3].metadata["answer"] = <<"A", "2">>

\* Executor e persists in this step.
Persists(e) == cpc[e] = "rl_persist" /\ "persist" \in did'[e]

\* C23: the persisted content changes only when a patch is persisted: the
\* persist of a reload that a poll (check_updates) began leaves the content
\* that the last patch persisted, whatever the interleaving of the workers'
\* steps (no call into the environment has raised).
C23_PollKeepsPersistedPatch ==
  [][ \A e \in Execs :
        Persists(e) /\ caller[e].kind # "patch" /\ faults' = 0
          => snapshot_content' = snapshot_content ]_vars

====
